---- MODULE Spec2Model ----
(***************************************************************************)
(* Model of highcharts-axis-labels-shorten.js: the DOM text measurement,   *)
(* the greedy getShortened loop, the TextShortener measurement cache and   *)
(* the wrapped Axis init with its tickPositioner.                          *)
(*                                                                         *)
(* Texts are sequences of one-character strings.  JavaScript numbers are   *)
(* modelled exactly where the code divides: a number is a record           *)
(* [k, n, d] with k = "fin" (the rational n/d, d > 0), "nan", "inf" or     *)
(* "ninf".  IEEE rounding of the quotients is not modelled.                *)
(***************************************************************************)
EXTENDS Integers, Sequences, FiniteSets, TLC

\* ------------------------------------------------------------- bounds
MaxLen == 4
MaxWidth == 10
MaxCalls == 3
MaxCats == 5
MaxPlotWidth == 170

\* ------------------------------------------------- JavaScript numbers
Num(i) == [k |-> "fin", n |-> i, d |-> 1]
NaN == [k |-> "nan", n |-> 0, d |-> 1]
Infinity == [k |-> "inf", n |-> 0, d |-> 1]
NegInfinity == [k |-> "ninf", n |-> 0, d |-> 1]

IsFin(x) == x.k = "fin"
Sign(x) == CASE x.k = "inf" -> 1
             [] x.k = "ninf" -> 0 - 1
             [] x.k = "fin" /\ x.n > 0 -> 1
             [] x.k = "fin" /\ x.n < 0 -> 0 - 1
             [] OTHER -> 0

\* x / y.  A zero divisor is +0 here (a width or a length).
JsDiv(x, y) ==
    IF x.k = "nan" \/ y.k = "nan" THEN NaN
    ELSE IF IsFin(y) /\ y.n = 0
         THEN (IF Sign(x) = 0 THEN NaN
               ELSE IF Sign(x) > 0 THEN Infinity ELSE NegInfinity)
    ELSE IF ~IsFin(x) /\ ~IsFin(y) THEN NaN
    ELSE IF ~IsFin(y) THEN Num(0)
    ELSE IF ~IsFin(x)
         THEN (IF Sign(x) * Sign(y) > 0 THEN Infinity ELSE NegInfinity)
    ELSE IF y.n > 0 THEN [k |-> "fin", n |-> x.n * y.d, d |-> x.d * y.n]
    ELSE [k |-> "fin", n |-> 0 - (x.n * y.d), d |-> x.d * (0 - y.n)]

\* x - y
JsSub(x, y) ==
    IF x.k = "nan" \/ y.k = "nan" THEN NaN
    ELSE IF IsFin(x) /\ IsFin(y)
         THEN [k |-> "fin", n |-> x.n * y.d - y.n * x.d, d |-> x.d * y.d]
    ELSE IF IsFin(x) THEN (IF y.k = "inf" THEN NegInfinity ELSE Infinity)
    ELSE IF IsFin(y) THEN x
    ELSE IF x.k = y.k THEN NaN ELSE x

\* x < y; every comparison with NaN is false
JsLt(x, y) ==
    IF x.k = "nan" \/ y.k = "nan" THEN FALSE
    ELSE IF IsFin(x) /\ IsFin(y) THEN x.n * y.d < y.n * x.d
    ELSE IF x.k = y.k THEN FALSE
    ELSE x.k = "ninf" \/ y.k = "inf"

\* Math.ceil
JsCeil(x) == IF IsFin(x) THEN Num(0 - ((0 - x.n) \div x.d)) ELSE x

\* Math.floor
JsFloor(x) == IF IsFin(x) THEN Num(x.n \div x.d) ELSE x

\* Math.max(x, y): NaN when either argument is NaN
JsMax(x, y) ==
    IF x.k = "nan" \/ y.k = "nan" THEN NaN
    ELSE IF JsLt(x, y) THEN y ELSE x

\* a % b for an integer a >= 0 and an integral or infinite b
JsMod(a, b) ==
    IF b.k = "nan" THEN NaN
    ELSE IF ~IsFin(b) THEN Num(a)
    ELSE IF b.n = 0 THEN NaN
    ELSE IF b.n > 0 THEN Num(a % b.n) ELSE Num(a % (0 - b.n))

\* the integer String.prototype.substring takes for an end index
ToIndex(x, len) ==
    IF x.k = "nan" \/ x.k = "ninf" THEN 0
    ELSE IF x.k = "inf" THEN len
    ELSE IF x.n \div x.d < 0 THEN 0
    ELSE IF x.n \div x.d > len THEN len
    ELSE x.n \div x.d

\* --------------------------------------------------- texts and fonts
\* "m" a wide letter, "i" a narrow one, "." the period, "z" a zero-width
\* character (U+200B).
Alphabet == {"m", "i", ".", "z"}
TextsUpTo(n) == UNION {[1..k -> Alphabet] : k \in 0..n}
Texts == TextsUpTo(MaxLen)
Widths == (0 - 1)..MaxWidth
ClassNames == {"highcharts-axis-labels", "monospace"}
Dot == <<".">>
Ellipsis == <<".", ".", ".">>

\* The advance width the page's style sheet gives a character under a
\* class: a proportional font for the axis labels (the narrow letter is
\* narrower than the period, as in Arial), a fixed-pitch one otherwise.
GlyphWidth(ch, className) ==
    IF ch = "z" THEN 0
    ELSE IF className = "monospace" THEN 2
    ELSE CASE ch = "m" -> 3
           [] ch = "." -> 2
           [] OTHER -> 1

LineHeight(className) == IF className = "monospace" THEN 3 ELSE 4

RECURSIVE BBoxWidth(_, _)
BBoxWidth(text, className) ==
    IF Len(text) = 0 THEN 0
    ELSE GlyphWidth(Head(text), className) + BBoxWidth(Tail(text), className)

\* module-level measureText under the style in force (scale)
measureText(text, className, scale) ==
    IF Len(text) = 0 THEN [height |-> 0, width |-> 0]
    ELSE [height |-> scale * LineHeight(className),
          width |-> scale * BBoxWidth(text, className)]

VARIABLES
    cache,        \* ts._cache: className -> (text -> {width, height})
    fontScale,    \* the page's style in force when the DOM measures
    domCount,     \* history: DOM measurements made per <<className, text>>
    firstSeen,    \* history: the first DOM measurement per <<className, text>>
    ret,          \* the last value TextShortener.measureText returned, and for what
    pc,           \* "idle", "loop" (inside getShortened), "returned"
    ncalls,       \* calls made so far
    text, width, className,   \* arguments of the running getShortened
    short, shortened,         \* its locals
    result,       \* its return value
    reshorten,    \* the running call's text is the previous call's result
    axis          \* the axis under construction (wrapped init)

shortenVars == <<pc, ncalls, text, width, className, short, shortened,
                 result, reshorten>>
cacheVars == <<cache, fontScale, domCount, firstSeen, ret>>
vars == <<cache, fontScale, domCount, firstSeen, ret, pc, ncalls, text, width,
          className, short, shortened, result, reshorten, axis>>

NoRet == [className |-> "", text |-> <<>>, value |-> [height |-> 0, width |-> 0],
          fresh |-> FALSE, valid |-> FALSE]

\* ------------------------------------------------ TextShortener cache
Cached(c, cls, t) == cls \in DOMAIN c /\ t \in DOMAIN c[cls]

\* line 125-126: this._cache[className] = this._cache[className] || {}
WithClass(c, cls) == IF cls \in DOMAIN c THEN c ELSE (cls :> <<>>) @@ c

Store(c, cls, t, entry) ==
    [x \in DOMAIN WithClass(c, cls) |->
        IF x = cls THEN (t :> entry) @@ WithClass(c, cls)[cls]
        ELSE WithClass(c, cls)[x]]

\* a mutant: the lookup is skipped, every call measures and stores
TsMeasureAlways(c, t, cls, scale) ==
    [value |-> measureText(t, cls, scale),
     cache |-> Store(c, cls, t, measureText(t, cls, scale)),
     fresh |-> TRUE]

\* a mutant: an entry of width 0 counts as missing (if (classCache[text].width))
TsMeasureWidthTruthy(c, t, cls, scale) ==
    IF Cached(c, cls, t) /\ c[cls][t].width # 0
    THEN [value |-> c[cls][t], cache |-> c, fresh |-> FALSE]
    ELSE [value |-> measureText(t, cls, scale),
          cache |-> Store(c, cls, t, measureText(t, cls, scale)),
          fresh |-> TRUE]

\* TextShortener.prototype.measureText: the value returned, the cache
\* afterwards, and whether the DOM was measured.  A cached entry is an
\* object, hence truthy whatever its width.
TsMeasure(c, t, cls, scale) ==
    IF Cached(c, cls, t)
    THEN [value |-> c[cls][t], cache |-> WithClass(c, cls), fresh |-> FALSE]
    ELSE [value |-> measureText(t, cls, scale),
          cache |-> Store(c, cls, t, measureText(t, cls, scale)),
          fresh |-> TRUE]

Count(p) == IF p \in DOMAIN domCount THEN domCount[p] ELSE 0

\* the effect of one TextShortener.measureText(t, cls) on the cache and on
\* the history variables (the count saturates at 2)
DoMeasure(t, cls) ==
    LET m == TsMeasure(cache, t, cls, fontScale)
        p == <<cls, t>>
    IN  /\ cache' = m.cache
        /\ ret' = [className |-> cls, text |-> t, value |-> m.value,
                   fresh |-> m.fresh, valid |-> TRUE]
        /\ domCount' = IF m.fresh
                       THEN (p :> (IF Count(p) < 2 THEN Count(p) + 1 ELSE 2)) @@ domCount
                       ELSE domCount
        /\ firstSeen' = IF m.fresh /\ p \notin DOMAIN firstSeen
                        THEN (p :> m.value) @@ firstSeen
                        ELSE firstSeen
        /\ UNCHANGED fontScale

\* --------------------------------------------------------- getShortened
\* a mutant: two characters reserved for the ellipsis instead of three
KeepCharsReserveTwo(s, w, wd) ==
    JsMax(Num(0),
          JsSub(JsSub(Num(Len(s)),
                      JsCeil(JsDiv(JsSub(Num(w), Num(wd)),
                                   JsDiv(Num(w), Num(Len(s)))))),
                Num(2)))

\* lines 92-96: keepChars for the candidate s of measured width w
KeepChars(s, w, wd) ==
    JsMax(Num(0),
          JsSub(JsSub(Num(Len(s)),
                      JsCeil(JsDiv(JsSub(Num(w), Num(wd)),
                                   JsDiv(Num(w), Num(Len(s)))))),
                Num(3)))

\* a mutant: the loop stops as soon as the candidate is not wider (<=)
FitsNotWider(w, wd) == w <= wd

\* line 87: w < width
Fits(w, wd) == w < wd

\* line 97: keepChars < 1
BelowOne(keep) == JsLt(keep, Num(1))

\* the width the running iteration measures for the candidate
CurW == TsMeasure(cache, short, className, fontScale).value.width

\* TextShortener.prototype.getShortened(t, wd, cls) is entered
Call(t, wd, cls) ==
    /\ pc = "idle"
    /\ ncalls < MaxCalls
    /\ pc' = "loop"
    /\ ncalls' = ncalls + 1
    /\ text' = t /\ width' = wd /\ className' = cls
    /\ short' = t /\ shortened' = FALSE
    /\ reshorten' = FALSE
    /\ UNCHANGED <<result, cacheVars, axis>>

\* lines 86-88 and 104: the candidate fits, the loop breaks and the call returns
LoopBreak ==
    /\ pc = "loop"
    /\ Fits(CurW, width)
    /\ DoMeasure(short, className)
    /\ pc' = "returned"
    /\ result' = (IF shortened THEN short \o Ellipsis ELSE short)
    /\ UNCHANGED <<ncalls, text, width, className, short, shortened, reshorten, axis>>

\* lines 91-99: nothing can be kept, the placeholder is returned
LoopPlaceholder ==
    /\ pc = "loop"
    /\ ~Fits(CurW, width)
    /\ BelowOne(KeepChars(short, CurW, width))
    /\ DoMeasure(short, className)
    /\ pc' = "returned"
    /\ shortened' = TRUE
    /\ result' = Dot
    /\ UNCHANGED <<ncalls, text, width, className, short, reshorten, axis>>

\* lines 91-101: the candidate is cut to keepChars characters and the loop goes on
LoopShrink ==
    /\ pc = "loop"
    /\ ~Fits(CurW, width)
    /\ ~BelowOne(KeepChars(short, CurW, width))
    /\ DoMeasure(short, className)
    /\ shortened' = TRUE
    /\ short' = SubSeq(short, 1, ToIndex(KeepChars(short, CurW, width), Len(short)))
    /\ UNCHANGED <<pc, ncalls, text, width, className, result, reshorten, axis>>

\* the caller shortens the returned string again, to the same width
ReCall ==
    /\ pc = "returned"
    /\ ~reshorten
    /\ pc' = "loop"
    /\ ncalls' = ncalls + 1
    /\ text' = result
    /\ short' = result /\ shortened' = FALSE
    /\ reshorten' = TRUE
    /\ UNCHANGED <<width, className, result, cacheVars, axis>>

NoLabels == [present |-> FALSE, rotation |-> [def |-> FALSE, n |-> 0],
             formatter |-> "undefined", maxStaggerLines |-> "undefined",
             overflow |-> "undefined"]
NoOptions == [isX |-> "undefined", shortenLabels |-> "undefined", labels |-> NoLabels,
              categories |-> [def |-> FALSE, list |-> <<>>],
              tickPositioner |-> "undefined"]
NoAxis == [state |-> "none", given |-> NoOptions, options |-> NoOptions,
           proceedCalls |-> <<>>, labelsRotated |-> FALSE,
           plotWidth |-> 0, tickPositions |-> <<>>]

InitShorten ==
    /\ cache = <<>>
    /\ fontScale = 1
    /\ domCount = <<>>
    /\ firstSeen = <<>>
    /\ ret = NoRet
    /\ pc = "idle"
    /\ ncalls = 0
    /\ text = <<>> /\ width = 0 /\ className = "highcharts-axis-labels"
    /\ short = <<>> /\ shortened = FALSE
    /\ result = <<>>
    /\ reshorten = FALSE
    /\ axis = NoAxis

FirstCall == ncalls = 0 /\ \E t \in Texts, wd \in Widths, cls \in ClassNames : Call(t, wd, cls)

NextShorten ==
    \/ FirstCall
    \/ LoopBreak
    \/ LoopPlaceholder
    \/ LoopShrink
    \/ ReCall

\* one getShortened call on a fresh TextShortener, then the result shortened again
SpecShorten == InitShorten /\ [][NextShorten]_vars

\* ------------------------------------------------ the shared shortener
\* labels of 0..MaxLen narrow letters, and two target widths
SampleTexts == {[i \in 1..k |-> "i"] : k \in 0..MaxLen}
SampleWidths == {0, MaxLen}

\* ts.measureText(t, cls) called directly
MeasureCall(t, cls) ==
    /\ pc = "idle"
    /\ ncalls < MaxCalls
    /\ ncalls' = ncalls + 1
    /\ DoMeasure(t, cls)
    /\ UNCHANGED <<pc, text, width, className, short, shortened, result, reshorten, axis>>

\* the page's style changes (a web font arrives): the DOM measures every
\* text twice as wide and high from now on
StyleChange ==
    /\ fontScale = 1
    /\ fontScale' = 2
    /\ UNCHANGED <<cache, domCount, firstSeen, ret, shortenVars, axis>>

\* the caller takes the result; ts is ready for the next call
Finish ==
    /\ pc = "returned"
    /\ pc' = "idle"
    /\ text' = <<>> /\ width' = 0 /\ className' = "highcharts-axis-labels"
    /\ short' = <<>> /\ shortened' = FALSE /\ result' = <<>>
    /\ UNCHANGED <<ncalls, reshorten, cacheVars, axis>>

NextCache ==
    \/ pc = "idle" /\ \E t \in SampleTexts, cls \in ClassNames : MeasureCall(t, cls)
    \/ pc = "idle" /\ \E t \in SampleTexts, wd \in SampleWidths, cls \in ClassNames : Call(t, wd, cls)
    \/ LoopBreak
    \/ LoopPlaceholder
    \/ LoopShrink
    \/ Finish
    \/ StyleChange

\* the module's one TextShortener, ts, serving a sequence of calls
SpecCache == InitShorten /\ [][NextCache]_vars

\* ---------------------------------------------- claims about the cache
\* C7: an entry the cache holds is never removed nor replaced by another
\* value, and a measureText call for a cached pair returns that entry.
C7_CacheImmutable ==
    [][/\ \A cls \in DOMAIN cache :
            /\ cls \in DOMAIN cache'
            /\ \A t \in DOMAIN cache[cls] :
                   t \in DOMAIN cache'[cls] /\ cache'[cls][t] = cache[cls][t]
       /\ (ret' # ret /\ Cached(cache, ret'.className, ret'.text))
              => ret'.value = cache[ret'.className][ret'.text]]_vars

\* a cached entry is returned although the DOM would now measure otherwise
C7_Witness ==
    /\ ret.valid /\ ~ret.fresh
    /\ Cached(cache, ret.className, ret.text)
    /\ ret.value = cache[ret.className][ret.text]
    /\ ret.value # measureText(ret.text, ret.className, fontScale)

\* C8: the DOM measures a pair only while it is not cached, so at most
\* once; measureText always returns the pair's first measurement, the
\* empty string (width 0, height 0) included.
C8_MeasuredOnce ==
    /\ \A p \in DOMAIN domCount : domCount[p] = 1 /\ Cached(cache, p[1], p[2])
    /\ \A cls \in DOMAIN cache : \A t \in DOMAIN cache[cls] :
           Count(<<cls, t>>) = 1 /\ cache[cls][t] = firstSeen[<<cls, t>>]
    /\ ret.valid =>
           /\ <<ret.className, ret.text>> \in DOMAIN firstSeen
           /\ ret.value = firstSeen[<<ret.className, ret.text>>]
           /\ ret.text = <<>> => ret.value = [height |-> 0, width |-> 0]

\* the empty string is asked for again and is not measured again
C8_Witness ==
    /\ ret.valid /\ ~ret.fresh
    /\ ret.text = <<>>
    /\ Count(<<ret.className, ret.text>>) = 1

\* ------------------------------------------- claims about getShortened
\* the width of a text measured afresh under the running call's class
WidthOf(t) == measureText(t, className, fontScale).width

\* the loop can never leave this state: "" is measured as 0, which is not
\* below a width <= 0, keepChars is NaN and the candidate stays ""
Hung == pc = "loop" /\ short = <<>> /\ width <= 0

\* the running iteration does not break and its keepChars is not a number >= 1
NothingKept ==
    /\ ~Fits(CurW, width)
    /\ ~(IsFin(KeepChars(short, CurW, width)) /\ ~BelowOne(KeepChars(short, CurW, width)))

\* C1: a returned string, measured as a whole with the same class, is not
\* wider than the target width, or it is exactly ".".
C1_FitsOrDot ==
    pc = "returned" => (WidthOf(result) <= width \/ result = Dot)

\* C2: every loop iteration that neither returns nor breaks strictly
\* decreases the length of the candidate (so the loop exits), for every
\* text and every width.
C2_StrictDecrease ==
    [][(pc = "loop" /\ pc' = "loop") => Len(short') < Len(short)]_vars

C4_PlaceholderIffNothingKept ==
    [][pc = "loop" => (NothingKept <=> (pc' = "returned" /\ result' = Dot))]_vars

\* the three shapes of C9
Unchanged == result = text
Placeholder == result = Dot
Truncated == \E k \in 1..(Len(text) - 3) : result = SubSeq(text, 1, k) \o Ellipsis
EndsWithEllipsis(t) == Len(t) >= 4 /\ SubSeq(t, Len(t) - 2, Len(t)) = Ellipsis

PerTickRotated == 20
PerTickHorizontal == 80

Truthy(v) == v = "true"
NBSP == "nbsp"

\* the axis options a chart may hand to init
Rotations == {[def |-> FALSE, n |-> 0], [def |-> TRUE, n |-> 0],
              [def |-> TRUE, n |-> 0 - 45], [def |-> TRUE, n |-> 90]}
UserLabels ==
    {NoLabels}
    \cup {[present |-> TRUE, rotation |-> r, formatter |-> "undefined",
           maxStaggerLines |-> "undefined", overflow |-> "undefined"] : r \in Rotations}
    \cup {[present |-> TRUE, rotation |-> [def |-> TRUE, n |-> 0 - 45], formatter |-> "user",
           maxStaggerLines |-> "5", overflow |-> "justify"]}
Names == {<<"a">>, <<"a", " ", "b", " ", "c">>}
CategoryLists == UNION {[1..k -> Names] : k \in 0..MaxCats}
UserCategories ==
    {[def |-> FALSE, list |-> <<>>]} \cup {[def |-> TRUE, list |-> l] : l \in CategoryLists}
UserOptions ==
    [isX : {"true", "false", "undefined"},
     shortenLabels : {"true", "false", "undefined"},
     labels : UserLabels,
     categories : UserCategories,
     tickPositioner : {"undefined", "user"}]

\* line 182: category.replace(/ /g, nbsp)
ReplaceSpaces(category) ==
    [i \in 1..Len(category) |-> IF category[i] = " " THEN NBSP ELSE category[i]]

\* line 145: options.labels && options.labels.rotation, as a condition
LabelsRotated(o) == o.labels.present /\ o.labels.rotation.def /\ o.labels.rotation.n # 0

\* line 147, negated: the plugin is active
Active(o) == Truthy(o.isX) /\ Truthy(o.shortenLabels)

\* lines 152-184: H.merge(true, options, {...}) for defined categories
Merged(o) ==
    [o EXCEPT !.labels = [@ EXCEPT !.present = TRUE,
                                    !.maxStaggerLines = "1",
                                    !.overflow = "false",
                                    !.formatter = "plugin"],
              !.tickPositioner = "plugin",
              !.categories = [def |-> TRUE,
                              list |-> [i \in 1..Len(o.categories.list) |->
                                           ReplaceSpaces(o.categories.list[i])]]]

\* the chart constructs an axis: Axis.prototype.init(chart, o) is about to run
AxisCreate(o) ==
    /\ axis.state = "none"
    /\ axis' = [NoAxis EXCEPT !.state = "new", !.given = o, !.options = o]
    /\ UNCHANGED <<cacheVars, shortenVars>>

\* lines 145-150: the plugin is not active, the original init runs on the options as given
InitPassThrough ==
    /\ axis.state = "new"
    /\ ~Active(axis.options)
    /\ axis' = [axis EXCEPT !.state = "inited",
                            !.labelsRotated = LabelsRotated(axis.options),
                            !.proceedCalls = Append(@, axis.options)]
    /\ UNCHANGED <<cacheVars, shortenVars>>

\* lines 145-186: the options are merged, then the original init runs
InitActivate ==
    /\ axis.state = "new"
    /\ Active(axis.options)
    /\ axis.options.categories.def
    /\ axis' = [axis EXCEPT !.state = "inited",
                            !.labelsRotated = LabelsRotated(axis.options),
                            !.options = Merged(axis.options),
                            !.proceedCalls = Append(@, Merged(axis.options))]
    /\ UNCHANGED <<cacheVars, shortenVars>>

\* line 181: options.categories is undefined, .map throws a TypeError
\* before merge and before the original init
InitThrow ==
    /\ axis.state = "new"
    /\ Active(axis.options)
    /\ ~axis.options.categories.def
    /\ axis' = [axis EXCEPT !.state = "threw",
                            !.labelsRotated = LabelsRotated(axis.options)]
    /\ UNCHANGED <<cacheVars, shortenVars>>

\* a mutant: the pixel budgets of rotated and horizontal labels are swapped
PerTickWidthSwapped(rotated) == IF rotated THEN PerTickHorizontal ELSE PerTickRotated

\* line 168
PerTickWidth(rotated) == IF rotated THEN PerTickRotated ELSE PerTickHorizontal

\* line 169
Ticks(plotWidth, rotated) == JsFloor(JsDiv(Num(plotWidth), Num(PerTickWidth(rotated))))

\* a mutant: the stride is rounded down
SkipFloor(n, ticks) == JsFloor(JsDiv(Num(n), ticks))

\* line 173
Skip(n, ticks) == JsCeil(JsDiv(Num(n), ticks))

\* lines 174-178: the indices 0..n-1 in order, those with idx % skip === 0 kept
RECURSIVE FilterFrom(_, _, _)
FilterFrom(idx, n, skip) ==
    IF idx >= n THEN <<>>
    ELSE (IF JsMod(idx, skip) = Num(0) THEN <<idx>> ELSE <<>>)
         \o FilterFrom(idx + 1, n, skip)

\* lines 166-180
tickPositioner(n, plotWidth, rotated) ==
    FilterFrom(0, n, Skip(n, Ticks(plotWidth, rotated)))

\* the library lays the axis out and asks the injected tickPositioner;
\* this.categories are the merged options' categories
TickPositioner(pw) ==
    /\ axis.state = "inited"
    /\ axis.options.tickPositioner = "plugin"
    /\ axis' = [axis EXCEPT !.state = "ticked",
                            !.plotWidth = pw,
                            !.tickPositions =
                                tickPositioner(Len(axis.options.categories.list), pw,
                                               axis.labelsRotated)]
    /\ UNCHANGED <<cacheVars, shortenVars>>

NextAxis ==
    \/ axis.state = "none" /\ \E o \in UserOptions : AxisCreate(o)
    \/ InitPassThrough
    \/ InitActivate
    \/ InitThrow
    \/ axis.state = "inited" /\ \E pw \in 0..MaxPlotWidth : TickPositioner(pw)

\* one axis: constructed, initialised through the wrapper, then laid out
SpecAxis == InitShorten /\ [][NextAxis]_vars

\* ----------------------------------------------- claims about the axis
NCats == Len(axis.options.categories.list)
Budget == IF LabelsRotated(axis.given) THEN 20 ELSE 80
Room == axis.plotWidth \div Budget
Increasing(s) == \A i \in 1..(Len(s) - 1) : s[i] < s[i + 1]
Range(s) == {s[i] : i \in 1..Len(s)}

\* C5: the tick positions are exactly the indices i of 0..n-1 with
\* i mod stride = 0, in increasing order, stride = ceil(n / floor(plotWidth /
\* perTickWidth)), perTickWidth 20 for rotated labels and 80 otherwise; with
\* floor = 0 the stride is infinite and only index 0 remains; with n = 0
\* there are none.
C5_TickPositions ==
    axis.state = "ticked" =>
        /\ Increasing(axis.tickPositions)
        /\ Range(axis.tickPositions) =
               IF NCats = 0 THEN {}
               ELSE IF Room = 0 THEN {0}
               ELSE {i \in 0..(NCats - 1) : i % ((NCats + Room - 1) \div Room) = 0}

C5_Witness ==
    /\ axis.state = "ticked"
    /\ NCats >= 5 /\ Room = 2
    /\ axis.tickPositions = <<0, 3>>

\* C6: the plugin is active only when isX and shortenLabels are both
\* truthy; otherwise the original init is called exactly once with the
\* options as given, unchanged; when active, the original init is called
\* exactly once, with the merged options.
C6_InitFrame ==
    axis.state \in {"inited", "threw", "ticked"} =>
        /\ Len(axis.proceedCalls) = 1
        /\ axis.proceedCalls[1] = axis.options
        /\ IF Truthy(axis.given.isX) /\ Truthy(axis.given.shortenLabels)
           THEN /\ axis.options.tickPositioner = "plugin"
                /\ axis.options.labels.formatter = "plugin"
           ELSE axis.options = axis.given

\* C10: for a non-empty category list the tick positions contain index 0,
\* are strictly increasing, lie in 0..n-1 and, when floor(plotWidth /
\* perTickWidth) >= 1, number at most that many.
C10_TickBudget ==
    (axis.state = "ticked" /\ NCats > 0) =>
        /\ Len(axis.tickPositions) >= 1
        /\ axis.tickPositions[1] = 0
        /\ Increasing(axis.tickPositions)
        /\ Range(axis.tickPositions) \subseteq 0..(NCats - 1)
        /\ Room >= 1 => Len(axis.tickPositions) <= Room

C10_Witness ==
    /\ axis.state = "ticked"
    /\ NCats > 0 /\ Room >= 2
    /\ Len(axis.tickPositions) = Room

====
